---------------------------- MODULE Spec2Model ----------------------------
(***************************************************************************)
(* Model of lms/djangoapps/courseware/task_submit.py: submission of        *)
(* course-level background tasks, the CourseTaskLog table that records     *)
(* them, and the status view built from the table and the celery result.   *)
(*                                                                         *)
(* The CourseTaskLog table is the sequence `db' (a row's id is its index). *)
(* The celery result backend is the sequence `results' (a task's id is its *)
(* index).  Every web worker of Procs handles one request at a time; a     *)
(* submission is split at its database and broker calls, which is where    *)
(* another worker's request can interleave.                                *)
(***************************************************************************)
EXTENDS Integers, Sequences, FiniteSets, TLC

\* Bounds of the model.
MaxRecords == 2
MaxTotal == 1

\* Python's None and a present value.
None == <<>>
Some(v) == <<v>>

\* READY_STATES without REVOKED.
READY_STATES_without_revoked == {"SUCCESS", "FAILURE"}

\* celery.states.READY_STATES
READY_STATES == {"SUCCESS", "FAILURE", "REVOKED"}

\* The web workers that serve requests concurrently.
Procs == {"w1", "w2"}

\* The inputs the requests are drawn from: an entry point, a course and a
\* problem url; submit_rescore_problem_for_student also takes TheStudent.
Requests == {<<"rescore_student", "c1", "p1">>,
             <<"rescore_all", "c1", "p1">>,
             <<"delete_all", "c1", "p1">>,
             <<"delete_all", "c2", "p1">>,
             <<"rescore_all", "c1", "p2">>,
             <<"reset_all", "c1", "p0">>}
TheStudent == [id |-> 7, username |-> "S7"]
Requester == "staff"

\* The module store: p1 is a problem that can be rescored, p2 a module
\* whose class has no rescore_problem, p0 does not exist.
Descriptors == [p1 |-> [module_class |-> {"rescore_problem"}],
                p2 |-> [module_class |-> {}]]

\* json.dumps and json.loads: the serialized text is a tagged value.
json_dumps(v) == <<"json", v>>
json_loads(s) == s[2]

VARIABLES db, results, eager, pc, req, loc, response

vars == <<db, results, eager, pc, req, loc, response>>

-----------------------------------------------------------------------------
\* The rows of the same course, type and key, finished or not.
RunningRows_any_state(course_id, task_type, task_key) ==
    {i \in 1..Len(db) : /\ db[i].course_id = course_id
                        /\ db[i].task_type = task_type
                        /\ db[i].task_key = task_key}

\* _task_is_running: a row of the same course, type and key in a state that
\* is not a READY state.
RunningRows(course_id, task_type, task_key) ==
    {i \in 1..Len(db) : /\ db[i].course_id = course_id
                        /\ db[i].task_type = task_type
                        /\ db[i].task_key = task_key
                        /\ db[i].task_state \notin READY_STATES}

\* A check that lets a second task run next to a running one.
_task_is_running_off_by_one(course_id, task_type, task_key) ==
    Cardinality(RunningRows(course_id, task_type, task_key)) > 1

_task_is_running(course_id, task_type, task_key) ==
    Cardinality(RunningRows(course_id, task_type, task_key)) > 0

\* get_running_course_tasks: the rows of a course that are not READY.
get_running_course_tasks(course_id) ==
    {i \in 1..Len(db) : /\ db[i].course_id = course_id
                        /\ db[i].task_state \notin READY_STATES}

\* An encoding whose key leaves the student out.
_encode_problem_and_student_input_url_only(problem_url, student) ==
    IF student # None
    THEN [task_input |-> [problem_url |-> problem_url,
                          student |-> student[1].username],
          task_key |-> "_" \o problem_url]
    ELSE [task_input |-> [problem_url |-> problem_url],
          task_key |-> "_" \o problem_url]

\* _encode_problem_and_student_input: student is None or Some(user).
_encode_problem_and_student_input(problem_url, student) ==
    IF student # None
    THEN [task_input |-> [problem_url |-> problem_url,
                          student |-> student[1].username],
          task_key |-> ToString(student[1].id) \o "_" \o problem_url]
    ELSE [task_input |-> [problem_url |-> problem_url],
          task_key |-> "" \o "_" \o problem_url]

\* modulestore().get_instance: raises ItemNotFoundError for an unknown url.
ItemExists(problem_url) == problem_url \in DOMAIN Descriptors

\* _check_arguments_for_rescoring, for a url that exists.
SupportsRescore(problem_url) ==
    "rescore_problem" \in Descriptors[problem_url].module_class

-----------------------------------------------------------------------------
\* The user-visible verb a job body reports in its counters.
ActionName(task_type) ==
    CASE task_type = "rescore_problem" -> "rescored"
      [] task_type = "reset_problem_attempts" -> "reset"
      [] OTHER -> "deleted"

\* The message _update_course_task_log builds for a PROGRESS result.
ProgressMessage(r) ==
    "Attempted " \o ToString(r.attempted) \o " of " \o ToString(r.total)
        \o ", " \o r.action_name \o " " \o ToString(r.updated)

RevokedMessage == "Task revoked before running"

\* An output dict that always carries a message.
NoOutput_with_message ==
    [message |-> Some(""), task_progress |-> None, task_traceback |-> None]

\* An output dict of _update_course_task_log with no key set.
NoOutput == [message |-> None, task_progress |-> None, task_traceback |-> None]

\* An entry that _update_course_task_log never saves itself.
entry_needs_saving_never(result_state) == FALSE

\* An entry that is saved on every call.
entry_needs_saving_always(result_state) == TRUE

\* Whether _update_course_task_log saves the entry itself: entry_needs_saving
\* starts False and only the REVOKED branch sets it.
entry_needs_saving(result_state) == result_state = "REVOKED"

\* _update_course_task_log(course_task_log_entry, task_result) with
\* task_result = [task_id, state, result, traceback].  Gives the entry as the
\* call leaves it in memory, the output dict, and whether the call saved it.
_update_course_task_log(entry, task_result) ==
    LET task_id == task_result.task_id
        result_state == task_result.state
        returned_result == task_result.result
        result_traceback == task_result.traceback
        failure_progress ==
            IF result_traceback # None
            THEN [exception |-> returned_result.type,
                  message |-> returned_result.message,
                  traceback |-> result_traceback[1]]
            ELSE [exception |-> returned_result.type,
                  message |-> returned_result.message]
        revoked_progress == [message |-> RevokedMessage]
        output ==
            CASE result_state = "PROGRESS" ->
                   [message |-> IF "attempted" \in DOMAIN returned_result
                                THEN Some(ProgressMessage(returned_result))
                                ELSE None,
                    task_progress |-> Some(returned_result),
                    task_traceback |-> None]
              [] result_state = "SUCCESS" ->
                   [message |-> None,
                    task_progress |-> Some(returned_result),
                    task_traceback |-> None]
              [] result_state = "FAILURE" ->
                   [message |-> Some(returned_result.message),
                    task_progress |-> Some(failure_progress),
                    task_traceback |-> result_traceback]
              [] result_state = "REVOKED" ->
                   [message |-> Some(RevokedMessage),
                    task_progress |-> Some(revoked_progress),
                    task_traceback |-> None]
              [] OTHER -> NoOutput
        task_output ==
            CASE result_state = "SUCCESS" -> Some(json_dumps(returned_result))
              [] result_state = "FAILURE" -> Some(json_dumps(failure_progress))
              [] result_state = "REVOKED" -> Some(json_dumps(revoked_progress))
              [] OTHER -> entry.task_output
        changed == result_state # entry.task_state
    IN  [entry |-> [entry EXCEPT
                      !.task_output = task_output,
                      !.task_state = IF changed THEN result_state ELSE @,
                      !.task_id = IF changed THEN Some(task_id) ELSE @],
         output |-> output,
         saved |-> entry_needs_saving(result_state)]

-----------------------------------------------------------------------------
NoStatusMessage == "No status information available"

\* A template that takes any update for a success.
CompletionTemplate_partial_succeeds(student, action, attempted, updated) ==
    Some([succeeded |-> attempted # 0 /\ updated # 0, msg |-> ""])

\* The sentence get_task_completion_message picks for a finished task that
\* has counters; None when no branch of the code binds msg.
CompletionTemplate(student, action, attempted, updated) ==
    IF student # None
    THEN IF attempted = 0
         THEN Some([succeeded |-> FALSE,
                    msg |-> "Unable to find submission to be " \o action
                              \o " for student '" \o student[1] \o "'"])
         ELSE IF updated = 0
         THEN Some([succeeded |-> FALSE,
                    msg |-> "Problem failed to be " \o action
                              \o " for student '" \o student[1] \o "'"])
         ELSE Some([succeeded |-> TRUE,
                    msg |-> "Problem successfully " \o action
                              \o " for student '" \o student[1] \o "'"])
    ELSE IF attempted = 0
         THEN Some([succeeded |-> FALSE,
                    msg |-> "Unable to find any students with submissions to be "
                              \o action])
         ELSE IF updated = 0
         THEN Some([succeeded |-> FALSE,
                    msg |-> "Problem failed to be " \o action \o " for any of "
                              \o ToString(attempted) \o " students"])
         ELSE IF updated = attempted
         THEN Some([succeeded |-> TRUE,
                    msg |-> "Problem successfully " \o action \o " for "
                              \o ToString(attempted) \o " students"])
         ELSE IF updated < attempted
         THEN Some([succeeded |-> FALSE,
                    msg |-> "Problem " \o action \o " for " \o ToString(updated)
                              \o " of " \o ToString(attempted) \o " students"])
         ELSE None

\* A get_task_completion_message that fails on an entry without task_output.
get_task_completion_message_requires_output(entry) ==
    [raised |-> IF entry.task_output = None
                THEN Some("MissingOutcome") ELSE None,
     succeeded |-> FALSE,
     message |-> ""]

\* get_task_completion_message(course_task_log_entry): the (succeeded,
\* message) pair, or the exception the call raises.
get_task_completion_message(entry) ==
    IF entry.task_output = None
    THEN [raised |-> None, succeeded |-> FALSE, message |-> NoStatusMessage]
    ELSE LET task_output == json_loads(entry.task_output[1]) IN
         IF entry.task_state \in {"FAILURE", "REVOKED"}
         THEN [raised |-> None, succeeded |-> FALSE,
               message |-> task_output.message]
         ELSE IF entry.task_input = None
         THEN [raised |-> None, succeeded |-> FALSE,
               message |-> NoStatusMessage]
         ELSE LET task_input == json_loads(entry.task_input)
                  student == IF "student" \in DOMAIN task_input
                             THEN Some(task_input.student) ELSE None
                  t == CompletionTemplate(student, task_output.action_name,
                                          task_output.attempted,
                                          task_output.updated)
              IN  IF t = None
                  THEN [raised |-> Some("UnboundLocalError"),
                        succeeded |-> FALSE, message |-> ""]
                  ELSE [raised |-> None,
                        succeeded |-> t[1].succeeded,
                        message |->
                          IF student # None
                             /\ task_output.attempted # task_output.total
                          THEN t[1].msg \o " (out of "
                                 \o ToString(task_output.total) \o ")"
                          ELSE t[1].msg]

\* AsyncResult(task_id): the result object of a dispatched task.
AsyncResult(task_id) ==
    [task_id |-> task_id,
     state |-> results[task_id].state,
     result |-> results[task_id].result,
     traceback |-> results[task_id].traceback]

\* A lookup by the row's id instead of its task_id.
RowsWithTaskId_by_row_id(task_id) ==
    {i \in 1..Len(db) : i = task_id}

\* CourseTaskLog.objects.get(task_id=task_id): the ids of the matching rows.
RowsWithTaskId(task_id) ==
    {i \in 1..Len(db) : db[i].task_id = Some(task_id)}

\* The same lookup in the table as an earlier call of one request left it.
RowsWithTaskIdIn(table, task_id) ==
    {i \in 1..Len(table) : table[i].task_id = Some(task_id)}

\* _get_course_task_log_status once the lookup found the entry `stored':
\* the entry as the call leaves it in memory, whether the call saved it, and
\* the status dict.
StatusOfEntry(stored, task_id) ==
    LET polled == stored.task_state \notin READY_STATES
        upd == _update_course_task_log(stored, AsyncResult(task_id))
        entry == IF polled THEN upd.entry ELSE stored
        output == IF polled THEN upd.output
                  ELSE IF stored.task_output # None
                  THEN [NoOutput EXCEPT !.task_progress =
                          Some(json_loads(stored.task_output[1]))]
                  ELSE NoOutput
        ready == entry.task_state \in READY_STATES
        completion == get_task_completion_message(entry)
    IN  [entry |-> entry,
         saved |-> polled /\ upd.saved,
         status |-> [raised |-> IF ready THEN completion.raised ELSE None,
                     task_id |-> entry.task_id,
                     task_state |-> entry.task_state,
                     in_progress |-> ~ready,
                     message |-> IF ready THEN Some(completion.message)
                                 ELSE output.message,
                     task_progress |-> output.task_progress,
                     task_traceback |-> output.task_traceback,
                     succeeded |-> IF ready THEN Some(completion.succeeded)
                                   ELSE None]]

\* _get_course_task_log_status(task_id) for a task_id that one row carries:
\* the row, the entry as the call leaves it in memory, whether the call
\* saved the entry, and the status dict.
_get_course_task_log_status(task_id) ==
    LET row == CHOOSE i \in RowsWithTaskId(task_id) : TRUE
        got == StatusOfEntry(db[row], task_id)
    IN  [row |-> row,
         entry |-> got.entry,
         saved |-> got.saved,
         status |-> got.status]

\* A batch that loses the status of a task it looked up.
AddStatus_dropped(output, task_id, status) == output

\* output[task_id] = task_output in the loop of course_task_log_status.
AddStatus(output, task_id, status) ==
    [k \in DOMAIN output \cup {task_id} |->
        IF k = task_id THEN status ELSE output[k]]

\* The loop of course_task_log_status over the posted task_ids[]: every id
\* is looked up in turn, in the table as the earlier lookups left it, and an
\* id no row carries is skipped.  Gives the table and the output dict.
RECURSIVE StatusOfTasks(_, _, _)
StatusOfTasks(tasks, table, output) ==
    IF tasks = <<>>
    THEN [table |-> table, output |-> output]
    ELSE LET task_id == Head(tasks)
             rows == RowsWithTaskIdIn(table, task_id)
         IN  IF rows = {}
             THEN StatusOfTasks(Tail(tasks), table, output)
             ELSE LET row == CHOOSE i \in rows : TRUE
                      got == StatusOfEntry(table[row], task_id)
                  IN  StatusOfTasks(
                          Tail(tasks),
                          IF got.saved
                          THEN [table EXCEPT ![row] = got.entry]
                          ELSE table,
                          AddStatus(output, task_id, got.status))

\* order_by('-id'): the ids of a set of rows, the highest first.
RECURSIVE order_by_id_descending(_)
order_by_id_descending(rows) ==
    IF rows = {}
    THEN <<>>
    ELSE LET newest == CHOOSE i \in rows : \A j \in rows : j <= i
         IN  <<newest>> \o order_by_id_descending(rows \ {newest})

\* A history that leaves out the rows of finished tasks.
HistoryRows_running_only(course_id, task_key) ==
    {i \in 1..Len(db) : /\ db[i].course_id = course_id
                        /\ db[i].task_key = task_key
                        /\ db[i].task_state \notin READY_STATES}

\* CourseTaskLog.objects.filter(course_id=course_id, task_key=task_key).
HistoryRows(course_id, task_key) ==
    {i \in 1..Len(db) : /\ db[i].course_id = course_id
                        /\ db[i].task_key = task_key}

\* get_course_task_history(course_id, problem_url, student): the ids of the
\* rows of the course that carry the encoded key, the newest first.
get_course_task_history(course_id, problem_url, student) ==
    order_by_id_descending(
        HistoryRows(course_id,
                    _encode_problem_and_student_input(problem_url,
                                                      student).task_key))

-----------------------------------------------------------------------------
\* The task type each submit_* entry point passes to _submit_task.
TaskType(entry_point) ==
    CASE entry_point \in {"rescore_student", "rescore_all"} -> "rescore_problem"
      [] entry_point = "reset_all" -> "reset_problem_attempts"
      [] OTHER -> "delete_problem_state"

\* A check that only looks the url up, for every entry point.
CheckArguments_lookup_only(entry_point, problem_url) ==
    IF ~ItemExists(problem_url) THEN "ItemNotFoundError" ELSE "ok"

\* The check each submit_* entry point makes before _submit_task: the
\* exception it raises, or "ok".
CheckArguments(entry_point, problem_url) ==
    IF ~ItemExists(problem_url) THEN "ItemNotFoundError"
    ELSE IF entry_point \in {"rescore_student", "rescore_all"}
            /\ ~SupportsRescore(problem_url)
    THEN "NotImplementedError"
    ELSE "ok"

\* A row created with a placeholder task_id.
NewRow_with_task_id(r) ==
    [course_id |-> r.course_id,
     task_type |-> r.task_type,
     task_key |-> r.task_key,
     task_input |-> json_dumps(r.task_input),
     task_id |-> Some(0),
     task_state |-> "QUEUING",
     task_output |-> None,
     requester |-> Requester]

\* The row _reserve_task creates.
NewRow(r) ==
    [course_id |-> r.course_id,
     task_type |-> r.task_type,
     task_key |-> r.task_key,
     task_input |-> json_dumps(r.task_input),
     task_id |-> None,
     task_state |-> "QUEUING",
     task_output |-> None,
     requester |-> Requester]

\* An _update_task that leaves out course_task_log.save().
_update_task_without_save(entry, task_result) ==
    IF _update_course_task_log(entry, task_result).saved
    THEN _update_course_task_log(entry, task_result).entry
    ELSE entry

\* _update_task(course_task_log, task_result): the entry it saves.
_update_task(entry, task_result) ==
    _update_course_task_log(entry, task_result).entry

NoRequest == [entry_point |-> "none"]
NoLoc == [row |-> 0, task |-> 0]

\* What the step just taken answered to its caller; NoResponse after a step
\* that answers nothing.  For a submission: "ok" or the exception raised.
\* For a status call: the status returned and whether the call wrote to the
\* table, and the same for the status call right before it when that call
\* asked for the same task.
NoResponse == [op |-> "none"]
SubmitResponse(kind) == [op |-> "submit", kind |-> kind]

Init ==
    /\ db = <<>>
    /\ results = <<>>
    /\ eager \in BOOLEAN
    /\ pc = [p \in Procs |-> "idle"]
    /\ req = [p \in Procs |-> NoRequest]
    /\ loc = [p \in Procs |-> NoLoc]
    /\ response = NoResponse

\* Rows the ledger holds or is about to hold: the model stops accepting
\* submissions at MaxRecords.
Reserved == Len(db) + Cardinality({q \in Procs : pc[q] = "reserve"})

\* Idle web workers are interchangeable: a request goes to the first one.
FirstIdle == IF pc["w1"] = "idle" THEN "w1" ELSE "w2"

\* The request a submit_* entry point hands to _submit_task.
Request(entry_point, course_id, problem_url, user) ==
    LET student == IF entry_point = "rescore_student" THEN Some(user) ELSE None
        enc == _encode_problem_and_student_input(problem_url, student)
    IN  [entry_point |-> entry_point,
         course_id |-> course_id,
         problem_url |-> problem_url,
         task_type |-> TaskType(entry_point),
         task_input |-> enc.task_input,
         task_key |-> enc.task_key]

\* A submit_* entry point up to the check of _reserve_task: the argument
\* check, the encoding of the input, and the _task_is_running query.  An
\* exception ends the request; response is the exception raised.
SubmitCheck(p, entry_point, course_id, problem_url, user) ==
    /\ pc[p] = "idle"
    /\ p = FirstIdle
    /\ LET checked == CheckArguments(entry_point, problem_url)
           r == Request(entry_point, course_id, problem_url, user)
       IN  IF checked # "ok"
           THEN /\ response' = SubmitResponse(checked)
                /\ UNCHANGED <<pc, req>>
           ELSE IF _task_is_running(course_id, r.task_type, r.task_key)
           THEN /\ response' = SubmitResponse("AlreadyRunningError")
                /\ UNCHANGED <<pc, req>>
           ELSE /\ Reserved < MaxRecords
                /\ req' = [req EXCEPT ![p] = r]
                /\ pc' = [pc EXCEPT ![p] = "reserve"]
                /\ response' = NoResponse
    /\ UNCHANGED <<db, results, eager, loc>>

\* _reserve_task after its check: CourseTaskLog.objects.create.
Reserve(p) ==
    /\ pc[p] = "reserve"
    /\ db' = Append(db, NewRow(req[p]))
    /\ loc' = [loc EXCEPT ![p].row = Len(db) + 1]
    /\ pc' = [pc EXCEPT ![p] = "dispatch"]
    /\ response' = NoResponse
    /\ UNCHANGED <<results, eager, req>>

\* The counters a job body reports.
Counters(task_type, attempted, updated, total) ==
    [action_name |-> ActionName(task_type), attempted |-> attempted,
     updated |-> updated, total |-> total]

\* The exception and traceback of a failed job.
JobException == [type |-> "ValueError", message |-> "bad answer"]
Tracebacks == {None, Some("Traceback (most recent call last)")}

\* The results an inline (CELERY_ALWAYS_EAGER) run leaves in its result.
EagerResults(task_type) ==
    {[state |-> "SUCCESS", task_type |-> task_type,
      result |-> Counters(task_type, t, u, t),
      traceback |-> None] : t \in 0..MaxTotal, u \in 0..MaxTotal}
    \cup {[state |-> "FAILURE", task_type |-> task_type,
           result |-> JobException, traceback |-> tb] : tb \in Tracebacks}

\* The result of a job that waits for a worker.
PendingResult(task_type) ==
    [state |-> "PENDING", task_type |-> task_type,
     result |-> None, traceback |-> None]

\* task_class.apply_async(task_args) returns a result: of the finished job
\* when tasks run inline, of a job that waits for a worker otherwise.
Dispatch(p) ==
    /\ pc[p] = "dispatch"
    /\ \E r \in (IF eager THEN EagerResults(req[p].task_type)
                 ELSE {PendingResult(req[p].task_type)}) :
          /\ r.state = "SUCCESS" => r.result.updated <= r.result.attempted
          /\ results' = Append(results, r)
    /\ loc' = [loc EXCEPT ![p].task = Len(results) + 1]
    /\ pc' = [pc EXCEPT ![p] = "update"]
    /\ response' = NoResponse
    /\ UNCHANGED <<db, eager, req>>

\* task_class.apply_async raises (the broker cannot be reached): the
\* exception leaves _submit_task before _update_task runs.
DispatchFails(p) ==
    /\ pc[p] = "dispatch"
    /\ response' = SubmitResponse("DispatchError")
    /\ pc' = [pc EXCEPT ![p] = "idle"]
    /\ req' = [req EXCEPT ![p] = NoRequest]
    /\ loc' = [loc EXCEPT ![p] = NoLoc]
    /\ UNCHANGED <<db, results, eager>>

\* _update_task and the return of _submit_task.  The entry in memory is the
\* row _reserve_task created: no other request can reach a row that has no
\* task_id.  The entry saved is the entry returned.
UpdateTask(p) ==
    /\ pc[p] = "update"
    /\ db' = [db EXCEPT ![loc[p].row] =
                _update_task(db[loc[p].row], AsyncResult(loc[p].task))]
    /\ response' = SubmitResponse("ok")
    /\ pc' = [pc EXCEPT ![p] = "idle"]
    /\ req' = [req EXCEPT ![p] = NoRequest]
    /\ loc' = [loc EXCEPT ![p] = NoLoc]
    /\ UNCHANGED <<results, eager>>

-----------------------------------------------------------------------------
\* The celery worker and the revoke signal, seen through the result backend.
Report(n, result) ==
    /\ results' = [results EXCEPT ![n] = result]
    /\ response' = NoResponse
    /\ UNCHANGED <<db, eager, pc, req, loc>>

\* A worker reports that it started the job (CELERY_TRACK_STARTED).
WorkerStart(n) ==
    /\ results[n].state = "PENDING"
    /\ Report(n, [results[n] EXCEPT !.state = "STARTED"])

\* The job body reports its counters after each module it visits, with
\* update_state(state='PROGRESS'); the first report fixes the total.
WorkerProgress(n) ==
    \/ /\ results[n].state \in {"PENDING", "STARTED"}
       /\ \E t \in 1..MaxTotal, b \in {0, 1} :
             Report(n, [results[n] EXCEPT
                          !.state = "PROGRESS",
                          !.result = Counters(results[n].task_type, 1, b, t)])
    \/ /\ results[n].state = "PROGRESS"
       /\ results[n].result.attempted < results[n].result.total
       /\ \E b \in {0, 1} :
             Report(n, [results[n] EXCEPT !.result.attempted = @ + 1,
                                          !.result.updated = @ + b])

\* The job body returns its counters: all zero when it found no module,
\* the counters of its last report otherwise.
WorkerSucceed(n) ==
    \/ /\ results[n].state \in {"PENDING", "STARTED"}
       /\ Report(n, [results[n] EXCEPT
                       !.state = "SUCCESS",
                       !.result = Counters(results[n].task_type, 0, 0, 0)])
    \/ /\ results[n].state = "PROGRESS"
       /\ results[n].result.attempted = results[n].result.total
       /\ Report(n, [results[n] EXCEPT !.state = "SUCCESS"])

\* The job body raises.
WorkerFail(n) ==
    /\ results[n].state \in {"PENDING", "STARTED", "PROGRESS"}
    /\ \E tb \in Tracebacks :
          Report(n, [results[n] EXCEPT !.state = "FAILURE",
                                       !.result = JobException,
                                       !.traceback = tb])

\* The job is revoked before a worker runs it.
Revoke(n) ==
    /\ results[n].state = "PENDING"
    /\ Report(n, [results[n] EXCEPT !.state = "REVOKED"])

\* course_task_log_status for one task_id that a row carries: the status is
\* returned, and the entry is written when _update_course_task_log saved it.
GetStatus(task_id) ==
    /\ RowsWithTaskId(task_id) # {}
    /\ LET got == _get_course_task_log_status(task_id)
           call == [status |-> got.status, wrote |-> got.saved]
       IN  /\ db' = IF got.saved
                    THEN [db EXCEPT ![got.row] = got.entry]
                    ELSE db
           /\ response' =
                [op |-> "status",
                 task_id |-> task_id,
                 prev |-> IF response.op = "status"
                             /\ response.task_id = task_id
                          THEN Some(response.last) ELSE None,
                 last |-> call]
    /\ UNCHANGED <<results, eager, pc, req, loc>>

\* The task_ids[] lists a batch request posts: ids of dispatched tasks and 9,
\* an id that was never given out.
TaskIdLists == {<<2, 9, 1>>, <<1, 1>>, <<9>>}

\* course_task_log_status for a posted list task_ids[]: the dict of the
\* statuses found is returned, and the table is as the lookups left it.
GetStatusBatch(tasks) ==
    /\ LET got == StatusOfTasks(tasks, db, <<>>)
       IN  /\ db' = got.table
           /\ response' = [op |-> "batch", tasks |-> tasks,
                           output |-> got.output]
    /\ UNCHANGED <<results, eager, pc, req, loc>>

\* The histories the instructor dashboard asks for: a course, a problem url
\* and a student or None.
HistoryQueries == {<<"c1", "p1", Some(TheStudent)>>,
                   <<"c1", "p1", None>>,
                   <<"c2", "p1", None>>}

\* get_course_task_history: a read of the table; the rows are returned.
GetHistory(course_id, problem_url, student) ==
    /\ response' = [op |-> "history",
                    query |-> <<course_id, problem_url, student>>,
                    rows |-> get_course_task_history(course_id, problem_url,
                                                     student)]
    /\ UNCHANGED <<db, results, eager, pc, req, loc>>

Next ==
    \/ \E p \in Procs, r \in Requests :
          SubmitCheck(p, r[1], r[2], r[3], TheStudent)
    \/ \E p \in Procs : Reserve(p)
    \/ \E p \in Procs : Dispatch(p)
    \/ \E p \in Procs : DispatchFails(p)
    \/ \E p \in Procs : UpdateTask(p)
    \/ \E n \in 1..Len(results) : WorkerStart(n)
    \/ \E n \in 1..Len(results) : WorkerProgress(n)
    \/ \E n \in 1..Len(results) : WorkerSucceed(n)
    \/ \E n \in 1..Len(results) : WorkerFail(n)
    \/ \E n \in 1..Len(results) : Revoke(n)
    \/ \E n \in 1..Len(results) : GetStatus(n)

Spec == Init /\ [][Next]_vars

\* The queries of the instructor dashboard (the batch of statuses and the
\* history), asked at any moment while one web worker serves the
\* submissions and the celery worker runs the tasks.
NextQueries ==
    \/ \E r \in Requests : SubmitCheck("w1", r[1], r[2], r[3], TheStudent)
    \/ Reserve("w1")
    \/ Dispatch("w1")
    \/ DispatchFails("w1")
    \/ UpdateTask("w1")
    \/ \E n \in 1..Len(results) : WorkerStart(n)
    \/ \E n \in 1..Len(results) : WorkerProgress(n)
    \/ \E n \in 1..Len(results) : WorkerSucceed(n)
    \/ \E n \in 1..Len(results) : WorkerFail(n)
    \/ \E n \in 1..Len(results) : Revoke(n)
    \/ \E n \in 1..Len(results) : GetStatus(n)
    \/ \E tasks \in TaskIdLists : GetStatusBatch(tasks)
    \/ \E q \in HistoryQueries : GetHistory(q[1], q[2], q[3])

SpecQueries == Init /\ [][NextQueries]_vars

-----------------------------------------------------------------------------
\* get_task_completion_message and the status of a finished task, as
\* functions of the row they are given.  The row is any row the table can
\* hold for a finished task: the counters in task_output are whatever the
\* job returned, and task_output is None when the row was written without
\* one.  The result backend holds whatever it reports for the task now.
MaxCount == 2

StoredStates == {"SUCCESS", "FAILURE", "REVOKED"}

\* The task_output columns a row in state task_state can hold.
StoredOutputs(task_state) ==
    CASE task_state = "SUCCESS" ->
           {None} \cup
           {Some(json_dumps(Counters("rescore_problem", a, u, t))) :
               a \in 0..MaxCount, u \in 0..MaxCount, t \in 0..MaxCount}
      [] task_state = "FAILURE" ->
           {None,
            Some(json_dumps([exception |-> JobException.type,
                             message |-> JobException.message])),
            Some(json_dumps([exception |-> JobException.type,
                             message |-> JobException.message,
                             traceback |-> "Traceback (most recent call last)"]))}
      [] OTHER ->
           {None, Some(json_dumps([message |-> RevokedMessage]))}

\* The rows of finished rescore tasks for problem p1 of course c1, for one
\* student and for all students.
StoredRows ==
    UNION {UNION {{[NewRow(Request(entry_point, "c1", "p1", TheStudent))
                      EXCEPT !.task_id = Some(1),
                             !.task_state = task_state,
                             !.task_output = task_output] :
                     task_output \in StoredOutputs(task_state)} :
                  task_state \in StoredStates} :
           entry_point \in {"rescore_student", "rescore_all"}}

\* What the result backend can report for the task of such a row.
NowReported ==
    {PendingResult("rescore_problem"),
     [state |-> "PROGRESS", task_type |-> "rescore_problem",
      result |-> Counters("rescore_problem", 1, 1, MaxCount),
      traceback |-> None],
     [state |-> "SUCCESS", task_type |-> "rescore_problem",
      result |-> Counters("rescore_problem", 1, 0, 1), traceback |-> None],
     [state |-> "FAILURE", task_type |-> "rescore_problem",
      result |-> JobException, traceback |-> None],
     [state |-> "REVOKED", task_type |-> "rescore_problem",
      result |-> None, traceback |-> None]}

InitStored ==
    /\ db \in {<<row>> : row \in StoredRows}
    /\ results \in {<<r>> : r \in NowReported}
    /\ eager = FALSE
    /\ pc = [p \in Procs |-> "idle"]
    /\ req = [p \in Procs |-> NoRequest]
    /\ loc = [p \in Procs |-> NoLoc]
    /\ response = NoResponse

\* A caller (the history page) asks get_task_completion_message about row i.
GetCompletionMessage(i) ==
    /\ response' = [op |-> "summarize", row |-> i,
                    result |-> get_task_completion_message(db[i])]
    /\ UNCHANGED <<db, results, eager, pc, req, loc>>

NextStored ==
    \/ \E i \in 1..Len(db) : GetCompletionMessage(i)
    \/ \E n \in 1..Len(results) : GetStatus(n)

SpecStored == InitStored /\ [][NextStored]_vars

-----------------------------------------------------------------------------
\* _encode_problem_and_student_input as a function of its arguments: a
\* problem url and a student (None for all students).
MaxStudentId == 3

ProblemUrls == {"p1", "", "_p1", "1_p1", "7_p1", "i4x://org/course/problem/p1"}

Students == {[id |-> i, username |-> u] :
                i \in 0..MaxStudentId, u \in {"S7", "", "1"}}

InitEncode ==
    /\ db = <<>>
    /\ results = <<>>
    /\ eager = FALSE
    /\ pc = [p \in Procs |-> "idle"]
    /\ req = [p \in Procs |-> NoRequest]
    /\ loc = [p \in Procs |-> NoLoc]
    /\ response \in {[op |-> "encode", problem_url |-> problem_url,
                      student |-> student] :
                        problem_url \in ProblemUrls,
                        student \in {None} \cup {Some(s) : s \in Students}}

\* A call of _encode_problem_and_student_input with the arguments drawn.
Encode ==
    /\ response.op = "encode"
    /\ response' = [op |-> "encoded",
                    problem_url |-> response.problem_url,
                    student |-> response.student,
                    result |-> _encode_problem_and_student_input(
                                   response.problem_url, response.student)]
    /\ UNCHANGED <<db, results, eager, pc, req, loc>>

NextEncode == Encode

SpecEncode == InitEncode /\ [][NextEncode]_vars

-----------------------------------------------------------------------------
\* Vocabulary of the properties.
Terminal == {"SUCCESS", "FAILURE", "REVOKED"}
NonTerminal == {"QUEUING", "PENDING", "PROGRESS"}

\* The rows that carry the course, task type and key of request r.
RowsOfKey(r) ==
    {i \in 1..Len(db) : /\ db[i].course_id = r.course_id
                        /\ db[i].task_type = r.task_type
                        /\ db[i].task_key = r.task_key}

\* The urls the module store knows, and those whose module can be rescored.
KnownUrls == {"p1", "p2"}
RescorableUrls == {"p1"}
ArgumentsPass(entry_point, problem_url) ==
    /\ problem_url \in KnownUrls
    /\ entry_point \in {"rescore_student", "rescore_all"}
          => problem_url \in RescorableUrls

\* A step in which web worker p runs the checks of a submission: it was idle
\* and the submission goes on to reserve its row or is answered.
ChecksNow(p) ==
    /\ pc[p] = "idle"
    /\ pc'[p] = "reserve" \/ response'.op = "submit"

\* C1: at most one row of a course, task type and key is in a non-terminal
\* state (QUEUING, PENDING, PROGRESS), whatever the interleaving of the
\* submissions.
C1_AtMostOneRunning ==
    \A i, j \in 1..Len(db) :
        (/\ i # j
         /\ db[i].course_id = db[j].course_id
         /\ db[i].task_type = db[j].task_type
         /\ db[i].task_key = db[j].task_key
         /\ db[i].task_state \in NonTerminal)
        => db[j].task_state \notin NonTerminal

\* C2: a submission made while a row of its course, task type and key is in
\* a non-terminal state raises AlreadyRunningError, creates no row,
\* dispatches nothing and changes no row.
C2_RunningIsRejected ==
    [][\A p \in Procs :
         ChecksNow(p) =>
           \A r \in Requests :
             (/\ ArgumentsPass(r[1], r[3])
              /\ \E i \in RowsOfKey(Request(r[1], r[2], r[3], TheStudent)) :
                    db[i].task_state \in NonTerminal
              /\ SubmitCheck(p, r[1], r[2], r[3], TheStudent))
             => /\ response' = SubmitResponse("AlreadyRunningError")
                /\ db' = db
                /\ results' = results
                /\ pc' = pc]_vars

\* A rejected submission next to the running row that rejected it.
C2_Witness ==
    /\ response = SubmitResponse("AlreadyRunningError")
    /\ \E i \in 1..Len(db) : db[i].task_state = "PENDING"

\* C3: rows that are terminal, or of another course, task type or key, never
\* make a submission fail: when every row of its course, task type and key
\* is SUCCESS, FAILURE or REVOKED the submission goes on to reserve, and
\* reserving appends a row in state QUEUING with no task_id and keeps every
\* earlier row.
C3_TerminalNeverBlocks ==
    [][/\ \A p \in Procs :
            ChecksNow(p) =>
              \A r \in Requests :
                (/\ ArgumentsPass(r[1], r[3])
                 /\ \A i \in RowsOfKey(Request(r[1], r[2], r[3], TheStudent)) :
                       db[i].task_state \in Terminal
                 /\ SubmitCheck(p, r[1], r[2], r[3], TheStudent))
                => /\ pc'[p] = "reserve"
                   /\ response' # SubmitResponse("AlreadyRunningError")
       /\ \A p \in Procs :
            (pc[p] = "reserve" /\ pc'[p] # "reserve")
            => /\ Len(db') = Len(db) + 1
               /\ \A i \in 1..Len(db) : db'[i] = db[i]
               /\ db'[Len(db')].task_state = "QUEUING"
               /\ db'[Len(db')].task_id = None
               /\ db'[Len(db')].course_id = req[p].course_id
               /\ db'[Len(db')].task_type = req[p].task_type
               /\ db'[Len(db')].task_key = req[p].task_key]_vars

\* A new QUEUING row after a terminal row of the same course, type and key.
C3_Witness ==
    \E i, j \in 1..Len(db) :
        /\ i < j
        /\ db[i].course_id = db[j].course_id
        /\ db[i].task_type = db[j].task_type
        /\ db[i].task_key = db[j].task_key
        /\ db[i].task_state \in Terminal
        /\ db[j].task_state = "QUEUING"
        /\ db[j].task_id = None

\* C4: once a status call has reported SUCCESS for the only unfinished job
\* of a course, task type and key, a new submission for them is accepted.
C4_ResubmitAfterSuccess ==
    [][\A p \in Procs :
         (/\ ChecksNow(p)
          /\ response.op = "status"
          /\ response.last.status.task_state = "SUCCESS")
         => \A r \in Requests :
              (/\ ArgumentsPass(r[1], r[3])
               /\ \A i \in RowsOfKey(Request(r[1], r[2], r[3], TheStudent)) :
                     \/ db[i].task_state \in Terminal
                     \/ db[i].task_id = Some(response.task_id)
               /\ SubmitCheck(p, r[1], r[2], r[3], TheStudent))
              => response' # SubmitResponse("AlreadyRunningError")]_vars

\* The transitions of the stored state that the state machine lists.
ListedTransitions ==
    {<<"QUEUING", "PENDING">>,
     <<"PENDING", "PROGRESS">>, <<"PROGRESS", "PROGRESS">>,
     <<"PENDING", "SUCCESS">>, <<"PROGRESS", "SUCCESS">>,
     <<"QUEUING", "FAILURE">>, <<"PENDING", "FAILURE">>,
     <<"PROGRESS", "FAILURE">>,
     <<"QUEUING", "REVOKED">>, <<"PENDING", "REVOKED">>}

\* Those, the states _update_task can find in the result right after the
\* dispatch, and REVOKED after any state that is not terminal.
StoredTransitions ==
    ListedTransitions
    \cup {<<"QUEUING", s>> : s \in {"STARTED", "PROGRESS", "SUCCESS"}}
    \cup {<<s, t>> : s \in {"STARTED"},
                     t \in {"PROGRESS", "SUCCESS", "FAILURE", "REVOKED"}}
    \cup {<<"PROGRESS", "REVOKED">>}

C6_TaskIdSetOnce ==
    /\ [](\A p \in Procs :
            pc[p] = "dispatch" => db[loc[p].row].task_id = None)
    /\ [][\A i \in 1..Len(db) :
            /\ db[i].task_id # None => db'[i].task_id = db[i].task_id
            /\ (db[i].task_id = None /\ db'[i].task_id # None)
               => \E p \in Procs : /\ pc[p] = "update"
                                   /\ loc[p].row = i
                                   /\ db'[i].task_id = Some(loc[p].task)]_vars

\* A status call has just written a row that had its task_id.
C6_Witness ==
    /\ response.op = "status"
    /\ response.last.wrote
    /\ \E i \in 1..Len(db) : db[i].task_id = Some(response.task_id)

Stuck(i) ==
    /\ db[i].task_state = "QUEUING"
    /\ \A p \in Procs : loc[p].row # i

\* C8: when the dispatch raises, the exception reaches the caller and the
\* row stays as reserved, QUEUING with no task_id; no later step changes or
\* removes that row.
C8_DispatchFailureSticks ==
    [][/\ \A p \in Procs :
            (pc[p] = "dispatch" /\ pc'[p] = "idle")
            => /\ response' = SubmitResponse("DispatchError")
               /\ db' = db
               /\ results' = results
               /\ db[loc[p].row].task_state = "QUEUING"
               /\ db[loc[p].row].task_id = None
       /\ \A i \in 1..Len(db) :
            Stuck(i) => /\ Len(db') >= i
                        /\ db'[i] = db[i]
                        /\ db[i].task_id = None]_vars

\* A status call has just answered while an earlier row is stuck.
C8_Witness ==
    /\ response.op = "status"
    /\ \E i \in 1..Len(db) : Stuck(i)

\* C9: a submission whose argument check fails is answered with the
\* exception of the check, creates and changes no row and dispatches
\* nothing; the ledger holds rows only for urls that passed the check.
C9_FailedCheckLeavesLedger ==
    /\ [](\A i \in 1..Len(db) :
            /\ json_loads(db[i].task_input).problem_url \in KnownUrls
            /\ db[i].task_type = "rescore_problem"
                  => json_loads(db[i].task_input).problem_url
                        \in RescorableUrls)
    /\ [][\A p \in Procs :
            ChecksNow(p) =>
              \A r \in Requests :
                (/\ ~ArgumentsPass(r[1], r[3])
                 /\ SubmitCheck(p, r[1], r[2], r[3], TheStudent))
                => /\ response' =
                        SubmitResponse(IF r[3] \in KnownUrls
                                       THEN "NotImplementedError"
                                       ELSE "ItemNotFoundError")
                   /\ db' = db
                   /\ results' = results
                   /\ pc' = pc]_vars

\* A submission was refused for a module that cannot be rescored, with rows
\* in the ledger.
C9_Witness ==
    /\ response = SubmitResponse("NotImplementedError")
    /\ Len(db) > 0

\* C10: two status calls for a task in a row, with no change of the task's
\* result between them, return the same status, and the second call writes
\* nothing to the table.
C10_StatusIdempotent ==
    (response.op = "status" /\ response.prev # None)
    => /\ response.last.status = response.prev[1].status
       /\ ~response.last.wrote

\* The second of two status calls, the first of which wrote the row.
C10_Witness ==
    /\ response.op = "status"
    /\ response.prev # None
    /\ response.prev[1].wrote

\* C11 as stated: in a status, in_progress is true exactly when the task_state
\* is not terminal, and succeeded and message are set only when it is.
C11_SetOnlyWhenTerminal ==
    response.op = "status" =>
        LET st == response.last.status
        IN  /\ st.in_progress <=> st.task_state \notin Terminal
            /\ (st.succeeded # None \/ st.message # None)
                  => st.task_state \in Terminal

\* C11 as amended: in a status, in_progress is true exactly when the
\* task_state is not terminal, succeeded is set exactly when it is terminal,
\* and message is set when it is terminal (the completion message) or
\* PROGRESS (the progress message built from the counters), in no other
\* state.
C11_StatusFields ==
    response.op = "status" =>
        LET st == response.last.status
        IN  /\ st.in_progress <=> st.task_state \notin Terminal
            /\ st.succeeded # None <=> st.task_state \in Terminal
            /\ st.task_state \in Terminal => st.message # None
            /\ (st.message # None /\ st.task_state \notin Terminal)
                  => /\ st.task_state = "PROGRESS"
                     /\ st.message =
                           Some(ProgressMessage(st.task_progress[1]))

\* A status of a task in PROGRESS, with its progress message.
C11_Witness ==
    /\ response.op = "status"
    /\ response.last.status.task_state = "PROGRESS"
    /\ response.last.status.in_progress
    /\ response.last.status.message # None

\* The task_output _update_course_task_log makes up for a revoked task.
RevokedOutput == Some(json_dumps([message |-> RevokedMessage]))

\* C12: a row stored as REVOKED carries the output made up for it, with the
\* revocation message; every status call for a task whose result is REVOKED,
\* the first and each later one, leaves the row stored as REVOKED and
\* returns in_progress false, succeeded false and the revocation message.
C12_RevokedIsSynthesized ==
    /\ \A i \in 1..Len(db) :
          db[i].task_state = "REVOKED" => db[i].task_output = RevokedOutput
    /\ (response.op = "status"
        /\ results[response.task_id].state = "REVOKED")
       => /\ \E i \in 1..Len(db) :
                /\ db[i].task_id = Some(response.task_id)
                /\ db[i].task_state = "REVOKED"
          /\ response.last.status.task_state = "REVOKED"
          /\ response.last.status.in_progress = FALSE
          /\ response.last.status.succeeded = Some(FALSE)
          /\ response.last.status.message = Some(RevokedMessage)
          /\ response.last.status.raised = None

\* The second of two status calls for a revoked task: the first stored
\* REVOKED, the second answers from the stored output.
C12_Witness ==
    /\ response.op = "status"
    /\ response.prev # None
    /\ response.prev[1].wrote
    /\ ~response.last.wrote
    /\ response.last.status.task_state = "REVOKED"
    /\ response.last.status.message = Some(RevokedMessage)

\* The task ids the ledger knows: those a row carries.
KnownTaskIds == {db[i].task_id[1] : i \in {j \in 1..Len(db) : db[j].task_id # None}}

\* The ids a posted list names.
Posted(tasks) == {tasks[k] : k \in 1..Len(tasks)}

\* C13: the dict a batch status query returns has as keys exactly the posted
\* ids that a row carries, each with the status of its task; an id no row
\* carries is left out, and the rows that carry none of the posted ids are
\* unchanged by the query: no row is changed by the lookup of an unknown id.
C13_BatchOmitsUnknown ==
    /\ [](response.op = "batch" =>
            /\ DOMAIN response.output = Posted(response.tasks) \cap KnownTaskIds
            /\ \A id \in DOMAIN response.output :
                  response.output[id] = _get_course_task_log_status(id).status)
    /\ [][response'.op = "batch" =>
            /\ Len(db') = Len(db)
            /\ \A i \in 1..Len(db) :
                  (\/ db[i].task_id = None
                   \/ db[i].task_id[1] \notin Posted(response'.tasks))
                  => db'[i] = db[i]]_vars

\* A batch that posted a known id and the id that was never given out, and
\* got the status of the known one.
C13_Witness ==
    /\ response.op = "batch"
    /\ 9 \in Posted(response.tasks)
    /\ 1 \in DOMAIN response.output
    /\ 9 \notin DOMAIN response.output

\* C19: the history of a course, a problem url and a student or None is made
\* of exactly the rows of the course that carry the key encoded from the url
\* and the student, finished or not, the highest row id first; no step
\* takes a row out of the rows a history is made of.
C19_HistoryByKey ==
    /\ [](response.op = "history" =>
            LET course_id == response.query[1]
                task_key == _encode_problem_and_student_input(
                                response.query[2], response.query[3]).task_key
                rows == response.rows
            IN  /\ {rows[k] : k \in 1..Len(rows)}
                     = {i \in 1..Len(db) : /\ db[i].course_id = course_id
                                           /\ db[i].task_key = task_key}
                /\ \A k \in 1..(Len(rows) - 1) : rows[k] > rows[k + 1])
    /\ [][\A q \in HistoryQueries :
            LET task_key == _encode_problem_and_student_input(
                                q[2], q[3]).task_key
            IN  HistoryRows(q[1], task_key)
                   \subseteq HistoryRows(q[1], task_key)']_vars

\* A history of two rows: the newer still running, the older finished.
C19_Witness ==
    /\ response.op = "history"
    /\ Len(response.rows) = 2
    /\ db[response.rows[1]].task_state \notin Terminal
    /\ db[response.rows[2]].task_state \in Terminal

\* C14: for a SUCCESS row with counters, get_task_completion_message gives
\* succeeded = TRUE exactly when the task was for one student and attempted
\* and updated are both not 0, or was for all students and attempted is not
\* 0 and equals updated; in the other listed cases (attempted 0, updated 0,
\* for all students 0 < updated < attempted) it gives FALSE; for a FAILURE
\* or REVOKED row it gives FALSE and the stored message.
C14_SucceededCases ==
    (response.op = "summarize" /\ db[response.row].task_output # None) =>
        LET entry == db[response.row]
            out == json_loads(entry.task_output[1])
            for_student == "student" \in DOMAIN json_loads(entry.task_input)
            res == response.result
        IN  /\ entry.task_state \in {"FAILURE", "REVOKED"}
                  => /\ res.raised = None
                     /\ res.succeeded = FALSE
                     /\ res.message = out.message
            /\ (/\ entry.task_state = "SUCCESS"
                /\ \/ for_student
                   \/ out.attempted = 0
                   \/ out.updated <= out.attempted)
                  => /\ res.raised = None
                     /\ res.succeeded <=>
                           IF for_student
                           THEN out.attempted # 0 /\ out.updated # 0
                           ELSE /\ out.attempted # 0
                                /\ out.updated = out.attempted

\* The message of a task for all students that updated some of those it
\* attempted: not a success.
C14_Witness ==
    /\ response.op = "summarize"
    /\ db[response.row].task_state = "SUCCESS"
    /\ db[response.row].task_output # None
    /\ "student" \notin DOMAIN json_loads(db[response.row].task_input)
    /\ json_loads(db[response.row].task_output[1]).updated > 0
    /\ json_loads(db[response.row].task_output[1]).updated
          < json_loads(db[response.row].task_output[1]).attempted
    /\ response.result.succeeded = FALSE

\* C15: for a finished row without task_output, get_task_completion_message
\* gives succeeded = FALSE and "No status information available", and the
\* status call for the row returns a status all the same: the stored
\* task_state, in_progress false, succeeded false.
C15_MissingOutputIsReported ==
    /\ (response.op = "summarize" /\ db[response.row].task_output = None)
          => /\ response.result.raised = None
             /\ response.result.succeeded = FALSE
             /\ response.result.message = "No status information available"
    /\ (/\ response.op = "status"
        /\ \E i \in 1..Len(db) : /\ db[i].task_id = Some(response.task_id)
                                 /\ db[i].task_state \in Terminal
                                 /\ db[i].task_output = None)
          => /\ response.last.status.raised = None
             /\ response.last.status.task_state \in Terminal
             /\ response.last.status.in_progress = FALSE
             /\ response.last.status.succeeded = Some(FALSE)
             /\ response.last.status.message
                   = Some("No status information available")
             /\ response.last.status.task_progress = None

\* A status was returned for a finished row without task_output.
C15_Witness ==
    /\ response.op = "status"
    /\ response.last.status.succeeded = Some(FALSE)
    /\ \E i \in 1..Len(db) : /\ db[i].task_id = Some(response.task_id)
                             /\ db[i].task_state \in Terminal
                             /\ db[i].task_output = None

\* C18: a status call for a row whose stored state is terminal writes
\* nothing and leaves the row as it is; the status carries the stored state,
\* task_id and task_output, whatever the result backend reports for the
\* task.
C18_TerminalRowIsNotPolled ==
    [][\A i \in 1..Len(db) :
         (/\ response'.op = "status"
          /\ db[i].task_id = Some(response'.task_id)
          /\ db[i].task_state \in Terminal)
         => /\ db' = db
            /\ results' = results
            /\ response'.last.wrote = FALSE
            /\ response'.last.status.task_state = db[i].task_state
            /\ response'.last.status.task_id = db[i].task_id
            /\ response'.last.status.task_progress =
                  IF db[i].task_output = None
                  THEN None
                  ELSE Some(json_loads(db[i].task_output[1]))]_vars

\* A status was returned for a row stored REVOKED with its output while the
\* result backend reports another state for the task.
C18_Witness ==
    /\ response.op = "status"
    /\ \E i \in 1..Len(db) : /\ db[i].task_id = Some(response.task_id)
                             /\ db[i].task_state = "REVOKED"
                             /\ db[i].task_output # None
                             /\ results[response.task_id].state = "SUCCESS"

\* C16: the encoding is a function of the problem url and the student: the
\* key is the student's id (nothing for all students), "_" and the url, the
\* input holds the url and, for a student, the username; for every url and
\* every student the key for the student differs from the key for all
\* students.
C16_KeyTellsStudentFromAll ==
    response.op = "encoded" =>
        LET url == response.problem_url
            for_all == _encode_problem_and_student_input(url, None)
        IN  /\ response.result
                 = _encode_problem_and_student_input(url, response.student)
            /\ for_all.task_key = "_" \o url
            /\ for_all.task_input = [problem_url |-> url]
            /\ response.student # None
                  => /\ response.result.task_key # for_all.task_key
                     /\ response.result.task_key
                           = ToString(response.student[1].id) \o "_" \o url
                     /\ response.result.task_input
                           = [problem_url |-> url,
                              student |-> response.student[1].username]

\* The key of a student for a url that itself looks like an encoded key.
C16_Witness ==
    /\ response.op = "encoded"
    /\ response.student # None
    /\ response.problem_url = "_p1"
    /\ response.result.task_key = "1__p1"

\* C17: when a status call polls a row that is not terminal and the result
\* of its task is in another state (PROGRESS, SUCCESS, FAILURE or REVOKED),
\* the call stores that state, and the output of a terminal one, in the row.
C17_PollStoresNewState ==
    [][\A i \in 1..Len(db) :
         (/\ response'.op = "status"
          /\ db[i].task_id = Some(response'.task_id)
          /\ db[i].task_state \notin Terminal
          /\ results[response'.task_id].state # db[i].task_state
          /\ results[response'.task_id].state
                \in {"PROGRESS", "SUCCESS", "FAILURE", "REVOKED"})
         => /\ db'[i].task_state = results[response'.task_id].state
            /\ db'[i].task_state \in Terminal
                  => db'[i].task_output # None]_vars

\* C20: the stored state of every row is one of QUEUING, PENDING, PROGRESS,
\* SUCCESS, FAILURE and REVOKED.
C20_StoredStateVocabulary ==
    \A i \in 1..Len(db) :
        db[i].task_state \in {"QUEUING", "PENDING", "PROGRESS",
                              "SUCCESS", "FAILURE", "REVOKED"}


\* C21: get_task_completion_message returns a (succeeded, message) pair for
\* every SUCCESS row that has a task_output with counters and a task_input,
\* whatever the values of attempted, updated and total: it raises nothing.
C21_SummarizeAlwaysReturns ==
    (/\ response.op = "summarize"
     /\ db[response.row].task_state = "SUCCESS"
     /\ db[response.row].task_output # None
     /\ db[response.row].task_input # None)
        => response.result.raised = None

=============================================================================
